---- MODULE Spec2Model ----
(***************************************************************************)
(* Model of clickhouse_driver/columns/decimalcolumn.py: the Decimal column *)
(* codec (DecimalColumn, its four width classes and                        *)
(* create_decimal_column).                                                 *)
(*                                                                         *)
(* Numbers are arbitrary-precision: an integer or a decimal is a record    *)
(* [kind, sign, digits, exp] whose digits are a sequence of 0..9, most     *)
(* significant first, without leading zeros (zero is the empty sequence),  *)
(* so that 2^255 and 76-digit coefficients are exact.  The decimal module  *)
(* of the Python standard library is modelled by what it computes: exact   *)
(* construction, results of * and / rounded half-even to the precision of  *)
(* the calling thread's current context, int() truncating toward zero.     *)
(***************************************************************************)
EXTENDS Integers, Sequences, FiniteSets, TLC

(***************************************************************************)
(* Bounds of the model.                                                    *)
(***************************************************************************)
MaxRows == 2

MaxScale == 2

(***************************************************************************)
(* Digit sequences.                                                        *)
(***************************************************************************)
\* The sequence f as an explicit tuple.
Tuple(f) == <<>> \o f

Zeros(n) == Tuple([i \in 1..n |-> 0])

Nines(n) == Tuple([i \in 1..n |-> 9])

\* 1234567890123... : n digits, no two neighbours equal, first digit 1.
Pattern(n) == Tuple([i \in 1..n |-> i % 10])

MaxOf(S) == CHOOSE x \in S : \A y \in S : y <= x

MinOf(S) == CHOOSE x \in S : \A y \in S : x <= y

StripLeading(d) ==
    LET nz == {i \in 1..Len(d) : d[i] # 0}
    IN  IF nz = {} THEN <<>> ELSE SubSeq(d, MinOf(nz), Len(d))

\* -1, 0 or 1 as magnitude a is below, equal to or above magnitude b.
CmpMag(a, b) ==
    IF Len(a) # Len(b) THEN (IF Len(a) < Len(b) THEN -1 ELSE 1)
    ELSE LET diff == {i \in 1..Len(a) : a[i] # b[i]}
         IN  IF diff = {} THEN 0
             ELSE IF a[MinOf(diff)] < b[MinOf(diff)] THEN -1 ELSE 1

\* d + 1
AddOne(d) ==
    LET n  == Len(d)
        nn == {i \in 1..n : d[i] # 9}
    IN  IF nn = {} THEN <<1>> \o Zeros(n)
        ELSE LET p == MaxOf(nn)
             IN  Tuple([i \in 1..n |->
                          IF i < p THEN d[i] ELSE IF i = p THEN d[i] + 1 ELSE 0])

\* d - 1, for d > 0
SubOne(d) ==
    LET n == Len(d)
        p == MaxOf({i \in 1..n : d[i] # 0})
    IN  StripLeading([i \in 1..n |-> IF i < p THEN d[i] ELSE IF i = p THEN d[i] - 1 ELSE 9])

\* 2 * d, for d > 0: the carry into a digit is 1 exactly when the digit below is >= 5.
Double(d) ==
    LET n    == Len(d)
        body == [i \in 1..n |->
                   (2 * d[i] + (IF i < n /\ d[i + 1] >= 5 THEN 1 ELSE 0)) % 10]
    IN  IF d[1] >= 5 THEN <<1>> \o body ELSE Tuple(body)

RECURSIVE Shl(_, _)
\* d << k, for d > 0 (eight doublings a step keep the recursion shallow)
Shl(d, k) ==
    IF k = 0 \/ Len(d) = 0 THEN d
    ELSE IF k >= 8
         THEN Shl(Double(Double(Double(Double(Double(Double(Double(Double(d)))))))), k - 8)
         ELSE Shl(Double(d), k - 1)

\* 1 << n
Pow2(n) == Shl(<<1>>, n)

(***************************************************************************)
(* Python values.  kind: "none" (None), "int", "float" (a finite float,    *)
(* held as the decimal its str() prints), "nan" (float('nan')), "dec" (a   *)
(* finite Decimal), "decnan" (Decimal('NaN')).                             *)
(***************************************************************************)
Val(k, s, d, e) == [kind |-> k, sign |-> s, digits |-> d, exp |-> e]

None == Val("none", 0, <<>>, 0)

PyInt(s, d) == Val("int", IF d = <<>> THEN 0 ELSE s, d, 0)

Dec(s, d, e) == Val("dec", s, d, e)

IsNumber(v) == v.kind \in {"int", "float", "dec"}

\* The value with its trailing zeros moved into the exponent: equal numbers
\* have equal normal forms.
Norm(v) ==
    LET d  == v.digits
        nz == {i \in 1..Len(d) : d[i] # 0}
    IN  IF nz = {} THEN [sign |-> 0, digits |-> <<>>, exp |-> 0]
        ELSE [sign |-> v.sign, digits |-> SubSeq(d, 1, MaxOf(nz)),
              exp |-> v.exp + (Len(d) - MaxOf(nz))]

\* Numeric equality of two finite numbers (Python's ==).
NumEq(a, b) == IsNumber(a) /\ IsNumber(b) /\ Norm(a) = Norm(b)

\* -1, 0, 1: numeric order of two finite numbers.
NumCmp(a, b) ==
    LET e  == IF a.exp < b.exp THEN a.exp ELSE b.exp
        da == IF a.digits = <<>> THEN <<>> ELSE a.digits \o Zeros(a.exp - e)
        db == IF b.digits = <<>> THEN <<>> ELSE b.digits \o Zeros(b.exp - e)
        sa == IF da = <<>> THEN 0 ELSE a.sign
        sb == IF db = <<>> THEN 0 ELSE b.sign
    IN  IF sa # sb THEN (IF sa = 1 THEN -1 ELSE 1)
        ELSE IF sa = 0 THEN CmpMag(da, db) ELSE CmpMag(db, da)

Neg(v) == [v EXCEPT !.sign = IF v.digits = <<>> THEN 0 ELSE 1 - v.sign]

(***************************************************************************)
(* The decimal module.                                                     *)
(***************************************************************************)
\* A coefficient of more than prec digits rounded half-even to prec digits
\* (the default rounding of a context); e is the exponent of the coefficient.
RoundHalfEven(s, d, e, prec) ==
    IF Len(d) <= prec THEN Dec(s, d, e)
    ELSE LET n    == Len(d)
             kept == SubSeq(d, 1, prec)
             rest == SubSeq(d, prec + 1, n)
             more == \E j \in 2..Len(rest) : rest[j] # 0
             odd  == prec >= 1 /\ kept[prec] % 2 = 1
             up   == rest[1] > 5 \/ (rest[1] = 5 /\ (more \/ odd))
         IN  Dec(s, IF up THEN AddOne(kept) ELSE kept, e + (n - prec))

\* Decimal(str(item)): exact for a number; Decimal('nan') is a quiet NaN;
\* Decimal('None') raises InvalidOperation.
DecimalOfStr(item) ==
    CASE item.kind \in {"int", "float", "dec"} ->
             [err |-> "none", val |-> Dec(item.sign, item.digits, item.exp)]
      [] item.kind \in {"nan", "decnan"} ->
             [err |-> "none", val |-> Val("decnan", 0, <<>>, 0)]
      [] OTHER -> [err |-> "InvalidOperation", val |-> None]

\* Decimal * 10**scale under a context of precision prec.
MulPow10(v, scale, prec) ==
    IF v.kind = "decnan" THEN v
    ELSE IF v.digits = <<>> THEN Dec(v.sign, <<>>, v.exp)
    ELSE RoundHalfEven(v.sign, v.digits \o Zeros(scale), v.exp, prec)

\* Decimal(item) / 10**scale under a context of precision prec, item an int.
DivPow10(item, scale, prec) ==
    IF item.digits = <<>> THEN Dec(0, <<>>, 0 - scale)
    ELSE RoundHalfEven(item.sign, item.digits, 0 - scale, prec)

\* int(Decimal): truncation toward zero; NaN raises ValueError.
IntOfDecimal(v) ==
    IF v.kind = "decnan" THEN [err |-> "ValueError", val |-> None]
    ELSE LET n == Len(v.digits)
             d == IF v.exp >= 0 THEN (IF n = 0 THEN <<>> ELSE v.digits \o Zeros(v.exp))
                  ELSE IF 0 - v.exp >= n THEN <<>>
                  ELSE SubSeq(v.digits, 1, n + v.exp)
         IN  [err |-> "none", val |-> PyInt(v.sign, d)]

(***************************************************************************)
(* Text: a str is a sequence of one-character strings.                     *)
(***************************************************************************)
DigitChars == <<"0", "1", "2", "3", "4", "5", "6", "7", "8", "9">>

IsDigitChar(c) == \E k \in 1..10 : DigitChars[k] = c

DigitOfChar(c) == (CHOOSE k \in 1..10 : DigitChars[k] = c) - 1

RECURSIVE NatToChars(_)
NatToChars(n) ==
    IF n < 10 THEN <<DigitChars[n + 1]>>
    ELSE NatToChars(n \div 10) \o <<DigitChars[(n % 10) + 1]>>

\* str(n)
IntToChars(n) == IF n < 0 THEN <<"-">> \o NatToChars(0 - n) ELSE NatToChars(n)

\* str.strip() of blanks
Strip(cs) ==
    LET nb == {i \in 1..Len(cs) : cs[i] # " "}
    IN  IF nb = {} THEN <<>> ELSE SubSeq(cs, MinOf(nb), MaxOf(nb))

RECURSIVE DigitsValue(_)
DigitsValue(cs) ==
    IF cs = <<>> THEN 0
    ELSE 10 * DigitsValue(SubSeq(cs, 1, Len(cs) - 1)) + DigitOfChar(cs[Len(cs)])

\* int(text): blanks around, an optional sign, then one or more digits;
\* anything else raises ValueError.
ParseInt(cs) ==
    LET t      == Strip(cs)
        signed == t # <<>> /\ t[1] \in {"+", "-"}
        body   == IF signed THEN Tail(t) ELSE t
        ok     == body # <<>> /\ \A i \in 1..Len(body) : IsDigitChar(body[i])
    IN  IF ~ok THEN [ok |-> FALSE, val |-> 0]
        ELSE [ok |-> TRUE,
              val |-> IF signed /\ t[1] = "-" THEN 0 - DigitsValue(body)
                      ELSE DigitsValue(body)]

\* text.split(','): the fields between the commas, in order.
SplitComma(cs) ==
    LET commas == {i \in 1..Len(cs) : cs[i] = ","}
        n      == Cardinality(commas)
        at(k)  == IF k = 0 THEN 0
                  ELSE IF k = n + 1 THEN Len(cs) + 1
                  ELSE CHOOSE i \in commas : Cardinality({j \in commas : j < i}) = k - 1
    IN  [k \in 1..(n + 1) |-> SubSeq(cs, at(k - 1) + 1, at(k) - 1)]

(***************************************************************************)
(* The column classes (class attributes, resolved along the MRO).          *)
(***************************************************************************)
Classes == {"Decimal32Column", "Decimal64Column", "Decimal128Column", "Decimal256Column"}

\* max_precision with Decimal256Column's value copied from Decimal128Column.
max_precision_copied(cls) ==
    CASE cls = "Decimal32Column"  -> 9
      [] cls = "Decimal64Column"  -> 18
      [] cls = "Decimal128Column" -> 38
      [] cls = "Decimal256Column" -> 38

\* max_precision of a class
max_precision(cls) ==
    CASE cls = "Decimal32Column"  -> 9
      [] cls = "Decimal64Column"  -> 18
      [] cls = "Decimal128Column" -> 38
      [] cls = "Decimal256Column" -> 76

\* int_size of a class; 0 stands for None.  Decimal32Column and Decimal64Column
\* set it.  Decimal128Column(DecimalColumn, Int128Column) and
\* Decimal256Column(DecimalColumn, Int256Column) do not: DecimalColumn comes
\* before the integer column in their MRO, and DecimalColumn.int_size = None
\* is the attribute found.
int_size(cls) ==
    CASE cls = "Decimal32Column" -> 4
      [] cls = "Decimal64Column" -> 8
      [] OTHER                   -> 0

\* Bits of the integer codec the class packs with: format 'i', format 'q',
\* Int128Column, Int256Column.
Bits(cls) ==
    CASE cls = "Decimal32Column"  -> 32
      [] cls = "Decimal64Column"  -> 64
      [] cls = "Decimal128Column" -> 128
      [] cls = "Decimal256Column" -> 256

Max32 == SubOne(Pow2(31))

Max64 == SubOne(Pow2(63))

Max128 == SubOne(Pow2(127))

Max256 == SubOne(Pow2(255))

\* 2^(bits-1) - 1
SignedMax(bits) ==
    CASE bits = 32  -> Max32
      [] bits = 64  -> Max64
      [] bits = 128 -> Max128
      [] bits = 256 -> Max256

\* Column.null_value
null_value == PyInt(0, <<>>)

NoCheck == [set |-> FALSE, max_signed_int |-> <<>>]

NoColumn ==
    [cls |-> "none", precision |-> 0, scale |-> 0, nullable |-> FALSE,
     types_check_enabled |-> FALSE, check_item |-> NoCheck]

\* DecimalColumn.__init__(precision, scale, types_check, **kwargs) on class cls.
\* Column.__init__ gets the remaining keyword arguments only, so
\* types_check_enabled keeps its default.  With types_check and int_size None,
\* 8 * self.int_size raises TypeError.
DecimalColumnInit(cls, precision, scale, options) ==
    LET base == [cls |-> cls, precision |-> precision, scale |-> scale,
                 nullable |-> options.nullable,
                 types_check_enabled |-> FALSE, check_item |-> NoCheck]
    IN  IF ~options.types_check THEN [err |-> "none", col |-> base]
        ELSE IF int_size(cls) = 0 THEN [err |-> "TypeError", col |-> NoColumn]
        ELSE [err |-> "none",
              col |-> [base EXCEPT !.check_item =
                         [set |-> TRUE,
                          max_signed_int |-> SubOne(Pow2(8 * int_size(cls) - 1))]]]

\* The selection with its first comparison strict.
SelectClassStrict(precision) ==
    IF precision < 9 THEN "Decimal32Column"
    ELSE IF precision <= 18 THEN "Decimal64Column"
    ELSE IF precision <= 38 THEN "Decimal128Column"
    ELSE "Decimal256Column"

\* The class create_decimal_column picks for a precision.
SelectClass(precision) ==
    IF precision <= 9 THEN "Decimal32Column"
    ELSE IF precision <= 18 THEN "Decimal64Column"
    ELSE IF precision <= 38 THEN "Decimal128Column"
    ELSE "Decimal256Column"

\* create_decimal_column(spec, column_options): [err, cls, col].
CreateDecimalColumn(spec, options) ==
    LET fields == SplitComma(SubSeq(spec, 9, Len(spec) - 1))
        failed(e) == [err |-> e, cls |-> "none", col |-> NoColumn]
    IN  IF Len(fields) # 2 THEN failed("ValueError")
        ELSE LET p == ParseInt(fields[1])
                 s == ParseInt(fields[2])
             IN  IF ~p.ok \/ ~s.ok THEN failed("ValueError")
                 ELSE LET cls == SelectClass(p.val)
                          r   == DecimalColumnInit(cls, p.val, s.val, options)
                      IN  [err |-> r.err, cls |-> cls, col |-> r.col]

(***************************************************************************)
(* The write path: prepare_items, before_write_items, write_items.         *)
(* A pass over a batch is a record [items, nulls_map, trace, err, errval]: *)
(* items is the list as mutated in place so far, trace the rows the        *)
(* validator ("check") and the scale arithmetic ("scale") were applied to, *)
(* in order, err the exception that ended the pass ("none": none).         *)
(***************************************************************************)
NoNulls == [given |-> FALSE, map |-> <<>>]

Event(e, i) == [ev |-> e, row |-> i]

\* check_item(value) of __init__: ColumnTypeMismatchException outside
\* [-max_signed_int, max_signed_int].  A float nan compares False both ways
\* and passes; None against an int raises TypeError.
check_item(col, value) ==
    LET max == PyInt(0, col.check_item.max_signed_int)
    IN  CASE value.kind = "none" -> "TypeError"
          [] value.kind = "nan"  -> "none"
          [] OTHER -> IF NumCmp(value, Neg(max)) = -1 \/ NumCmp(value, max) = 1
                      THEN "TypeMismatch" ELSE "none"

\* check_item_type(value) of the base column: isinstance(value, py_types),
\* py_types = (Decimal, float, int).
check_item_type(value) == IF value.kind = "none" THEN "TypeMismatch" ELSE "none"

RECURSIVE PrepareLoop(_, _, _)
\* The loop of prepare_items over rows i, i+1, ...
PrepareLoop(col, st, i) ==
    IF i > Len(st.items) THEN st
    ELSE LET x == st.items[i]
         IN  IF x.kind = "none" /\ col.nullable
             THEN PrepareLoop(col, [st EXCEPT !.nulls_map.map[i] = TRUE,
                                              !.items[i] = null_value], i + 1)
             ELSE LET e1 == IF col.types_check_enabled THEN check_item_type(x) ELSE "none"
                      e2 == IF e1 = "none" /\ col.check_item.set
                            THEN check_item(col, x) ELSE e1
                      tr == IF col.check_item.set /\ e1 = "none"
                            THEN Append(st.trace, Event("check", i)) ELSE st.trace
                  IN  IF e2 # "none"
                      THEN [st EXCEPT !.trace = tr, !.err = e2, !.errval = x]
                      ELSE PrepareLoop(col, [st EXCEPT !.trace = tr], i + 1)

\* int(Decimal(str(item)) * scale), or int(Decimal(str(item))) when scale is 0,
\* under a context of precision prec.
ScaleItem(item, scale, prec) ==
    LET c == DecimalOfStr(item)
    IN  IF c.err # "none" THEN c
        ELSE IntOfDecimal(IF scale >= 1 THEN MulPow10(c.val, scale, prec) ELSE c.val)

RECURSIVE BeforeWriteLoop(_, _, _, _)
\* before_write_items(items, nulls_map) over rows i, i+1, ...
BeforeWriteLoop(col, st, i, prec) ==
    IF i > Len(st.items) THEN st
    ELSE IF st.nulls_map.given /\ st.nulls_map.map # <<>> /\ st.nulls_map.map[i]
         THEN BeforeWriteLoop(col, [st EXCEPT !.items[i] = null_value], i + 1, prec)
         ELSE LET r  == ScaleItem(st.items[i], col.scale, prec)
                  tr == Append(st.trace, Event("scale", i))
              IN  IF r.err # "none"
                  THEN [st EXCEPT !.trace = tr, !.err = r.err, !.errval = st.items[i]]
                  ELSE BeforeWriteLoop(col, [st EXCEPT !.trace = tr, !.items[i] = r.val],
                                       i + 1, prec)

RECURSIVE FusedLoop(_, _, _, _)
\* A single pass that validates and scales row by row.
FusedLoop(col, st, i, prec) ==
    IF i > Len(st.items) THEN st
    ELSE LET x == st.items[i]
         IN  IF x.kind = "none" /\ col.nullable
             THEN FusedLoop(col, [st EXCEPT !.nulls_map.map[i] = TRUE,
                                            !.items[i] = null_value], i + 1, prec)
             ELSE LET e  == IF col.check_item.set THEN check_item(col, x) ELSE "none"
                      t1 == IF col.check_item.set
                            THEN Append(st.trace, Event("check", i)) ELSE st.trace
                      r  == ScaleItem(x, col.scale, prec)
                      t2 == Append(t1, Event("scale", i))
                  IN  IF e # "none" THEN [st EXCEPT !.trace = t1, !.err = e, !.errval = x]
                      ELSE IF r.err # "none"
                      THEN [st EXCEPT !.trace = t2, !.err = r.err, !.errval = x]
                      ELSE FusedLoop(col, [st EXCEPT !.trace = t2, !.items[i] = r.val],
                                     i + 1, prec)

StartPass(col, items) ==
    [items |-> items,
     nulls_map |-> IF col.nullable
                   THEN [given |-> TRUE, map |-> Tuple([i \in 1..Len(items) |-> FALSE])]
                   ELSE NoNulls,
     trace |-> <<>>, err |-> "none", errval |-> None]

prepare_items_fused(col, items, prec) == FusedLoop(col, StartPass(col, items), 1, prec)

\* prepare_items(items) on a list: the validation loop over every row, then
\* before_write_items over every row.  (before_write_items is a method, so the
\* early return of the first lines is never taken.)
prepare_items(col, items, prec) ==
    LET st == PrepareLoop(col, StartPass(col, items), 1)
    IN  IF st.err # "none" THEN st ELSE BeforeWriteLoop(col, st, 1, prec)

\* r fits a signed integer of the given width.
FitsSigned(r, bits) ==
    IF r.sign = 1 THEN CmpMag(r.digits, AddOne(SignedMax(bits))) <= 0
    ELSE CmpMag(r.digits, SignedMax(bits)) <= 0

\* write_items(items, buf) of the integer codec: every value is packed before
\* anything is written; a value that does not fit raises.
write_items(col, items, buf) ==
    IF \E i \in 1..Len(items) : ~FitsSigned(items[i], Bits(col.cls))
    THEN [err |-> "CodecError", buf |-> buf]
    ELSE [err |-> "none",
          buf |-> buf \o Tuple([i \in 1..Len(items) |->
                                  [bytes |-> Bits(col.cls) \div 8, value |-> items[i]]])]

\* Column._write_data(items, buf): prepare_items, then write_items.
BaseWriteData(col, items, buf, prec) ==
    LET st == prepare_items(col, items, prec)
    IN  IF st.err # "none" THEN [st |-> st, err |-> st.err, buf |-> buf]
        ELSE LET w == write_items(col, st.items, buf)
             IN  [st |-> st, err |-> w.err, buf |-> w.buf]

(***************************************************************************)
(* The read path: read_items, after_read_items.                            *)
(***************************************************************************)
\* read_items(n_items, buf) of the integer codec: n_items integers unpacked
\* from the source, which raises when the source is short.
read_items(n_items, source) ==
    IF Len(source) < n_items THEN [err |-> "CodecError", items |-> <<>>]
    ELSE [err |-> "none", items |-> SubSeq(source, 1, n_items)]

\* One row of after_read_items.
Descale(item, scale, prec) ==
    IF scale >= 1 THEN DivPow10(item, scale, prec) ELSE Dec(item.sign, item.digits, 0)

\* after_read_items that descales every row, whatever the nulls_map says.
after_read_items_all(col, items, nulls_map, prec) ==
    Tuple([i \in 1..Len(items) |-> Descale(items[i], col.scale, prec)])

\* after_read_items(items, nulls_map) under a context of precision prec.
after_read_items(col, items, nulls_map, prec) ==
    IF ~nulls_map.given
    THEN Tuple([i \in 1..Len(items) |-> Descale(items[i], col.scale, prec)])
    ELSE Tuple([i \in 1..Len(nulls_map.map) |->
                  IF nulls_map.map[i] THEN None ELSE Descale(items[i], col.scale, prec)])

\* Column._read_data(n_items, buf, nulls_map): read_items, then after_read_items.
BaseReadData(col, n_items, source, nulls_map, prec) ==
    LET r == read_items(n_items, source)
    IN  IF r.err # "none" THEN [err |-> r.err, items |-> <<>>, result |-> <<>>]
        ELSE [err |-> "none", items |-> r.items,
              result |-> after_read_items(col, r.items, nulls_map, prec)]

(***************************************************************************)
(* Inputs.                                                                 *)
(***************************************************************************)
Threads == {1, 2}

\* Precisions an application thread may have set before it calls the codec
\* (28 is the default of a new thread's context).
AmbientPrecs == {6, 28}

DefaultPrec == MaxOf(AmbientPrecs)

Options == [types_check : BOOLEAN, nullable : BOOLEAN]

Forms == {"plain", "spaced", "badp", "bads", "one", "three"}

\* The type declaration text of a declaration [p, s, form].
DeclText(decl) ==
    LET P == IntToChars(decl.p)
        S == IntToChars(decl.s)
        args == CASE decl.form = "plain"  -> P \o <<",">> \o S
                  [] decl.form = "spaced" -> P \o <<",", " ">> \o S
                  [] decl.form = "badp"   -> <<"x", ",">> \o S
                  [] decl.form = "bads"   -> P \o <<",">>
                  [] decl.form = "one"    -> P
                  [] decl.form = "three"  -> P \o <<",">> \o S \o <<",">> \o S
    IN  <<"D", "e", "c", "i", "m", "a", "l", "(">> \o args \o <<")">>

\* Every declaration around the valid range 1..76, well-formed or not.
CtorDecls == [p : -1..78, s : -1..MaxScale, form : Forms]

\* The declarations of the columns that are read and written.
CallDecls == [p : {5, 9, 18, 38, 76}, s : {0, 1, MaxScale}, form : {"plain"}]

ConcDecls == [p : {9, 76}, s : {MaxScale}, form : {"plain"}]

ConcOptions == [types_check : {FALSE}, nullable : {FALSE}]

\* The values a row of a written batch is drawn from: a value using the whole
\* digit budget of the declaration, a negative float with a fraction beyond
\* the scale, a value whose scaled form has one digit more than max_precision,
\* the largest integer of the width and the one above it, a float nan, None.
ItemChoices(col) ==
    LET M == max_precision(col.cls)
        w == Bits(col.cls)
    IN  { Dec(0, Pattern(col.precision), 0 - col.scale),
          Val("float", 1, <<1, 9, 9, 9>>, -3),
          Dec(0, Nines(M) \o <<5>>, 0 - (col.scale + 1)),
          PyInt(0, SignedMax(w)),
          PyInt(0, AddOne(SignedMax(w))),
          Val("nan", 0, <<>>, 0),
          None }

SeqsUpTo(S, n) == UNION {{Tuple(f) : f \in [1..k -> S]} : k \in 0..n}

Batches(col) == SeqsUpTo(ItemChoices(col), MaxRows)

\* The raw integers a read source is drawn from: the most negative magnitude
\* of the width, a value of max_precision digits, a small one.
RawChoices(col) ==
    { PyInt(1, SignedMax(Bits(col.cls))),
      PyInt(0, Pattern(max_precision(col.cls))),
      PyInt(0, <<1, 5>>) }

\* A read: n_items, the integers the source holds, the nulls_map handed in
\* (one for a nullable column, none otherwise).  One source is a row short.
Reads(col) ==
    LET maps(n) == IF col.nullable
                   THEN {[given |-> TRUE, map |-> Tuple(m)] : m \in [1..n -> BOOLEAN]}
                   ELSE {NoNulls}
    IN  UNION {{[n_items |-> Len(src), source |-> src, nulls_map |-> nm] :
                   nm \in maps(Len(src))} : src \in SeqsUpTo(RawChoices(col), MaxRows)}
        \cup {[n_items |-> 1, source |-> <<>>, nulls_map |-> nm] : nm \in maps(1)}

ConcBatches(col) ==
    {<<Dec(0, Pattern(col.precision), 0 - col.scale)>>, <<Val("nan", 0, <<>>, 0)>>}

ConcReads(col) ==
    {[n_items |-> 1, source |-> <<PyInt(0, Pattern(max_precision(col.cls)))>>,
      nulls_map |-> NoNulls]}

(***************************************************************************)
(* State.                                                                  *)
(***************************************************************************)
VARIABLES
    context,   \* context[t]: the precision of thread t's current decimal context
    ambient,   \* ambient[t]: the precision the application last set in thread t
    ctor,      \* ctor[t]: the last create_decimal_column call of thread t
    column,    \* column[t]: the column thread t holds
    call       \* call[t]: the _read_data / _write_data frame of thread t

vars == <<context, ambient, ctor, column, call>>

NoDecl == [p |-> 0, s |-> 0, form |-> "none"]

NoCtor == [decl |-> NoDecl, options |-> [types_check |-> FALSE, nullable |-> FALSE],
           cls |-> "none", err |-> "none"]

NoPass == [items |-> <<>>, nulls_map |-> NoNulls, trace |-> <<>>,
           err |-> "none", errval |-> None]

\* op: "none", "read", "write".  pc: "idle" (no call in progress; after a call
\* the frame holds what it returned or raised), "entered" (inside the with
\* block, before ctx.prec is set), "working" (ctx.prec set), "exiting" (the
\* body has returned or raised, the with block has not been left).
NoCall ==
    [op |-> "none", pc |-> "idle", input |-> <<>>, n_items |-> 0,
     nulls_in |-> NoNulls, saved |-> 0, working |-> 0, st |-> NoPass,
     err |-> "none", result |-> <<>>, buf |-> <<>>]

Init ==
    /\ context = [t \in Threads |-> DefaultPrec]
    /\ ambient = [t \in Threads |-> DefaultPrec]
    /\ ctor = [t \in Threads |-> NoCtor]
    /\ column = [t \in Threads |-> NoColumn]
    /\ call = [t \in Threads |-> NoCall]

\* A with block that works on one context shared by the whole process.
CtxOwnerShared(t) == 1

\* The thread whose current context the with block of a call made by thread t
\* replaces, sets the precision of and restores: localcontext() copies the
\* calling thread's own context and makes the copy current in that thread only.
CtxOwner(t) == t

\* The precision the decimal arithmetic of a call made by thread t runs under.
getprec(t) == context[CtxOwner(t)]

(***************************************************************************)
(* Actions.                                                                *)
(***************************************************************************)
\* The application sets the precision of its thread: getcontext().prec = P.
setcontext(t, precs) ==
    /\ call[t].pc = "idle"
    /\ \E P \in precs \ {ambient[t]} :
          /\ context' = [context EXCEPT ![t] = P]
          /\ ambient' = [ambient EXCEPT ![t] = P]
    /\ UNCHANGED <<ctor, column, call>>

\* column = create_decimal_column(spec, column_options)
create_decimal_column(t, decls, opts) ==
    /\ call[t].pc = "idle"
    /\ ctor[t] = NoCtor
    /\ \E decl \in decls, options \in opts :
          LET r == CreateDecimalColumn(DeclText(decl), options)
          IN  /\ ctor' = [ctor EXCEPT ![t] = [decl |-> decl, options |-> options,
                                              cls |-> r.cls, err |-> r.err]]
              /\ column' = [column EXCEPT ![t] = r.col]
    /\ UNCHANGED <<context, ambient, call>>

\* The thread drops its column and the result of its last call.
release(t) ==
    /\ call[t].pc = "idle"
    /\ ctor[t] # NoCtor
    /\ ctor' = [ctor EXCEPT ![t] = NoCtor]
    /\ column' = [column EXCEPT ![t] = NoColumn]
    /\ call' = [call EXCEPT ![t] = NoCall]
    /\ UNCHANGED <<context, ambient>>

\* The caller is done with what its last call returned or raised.
discard(t) ==
    /\ call[t].pc = "idle"
    /\ call[t].op # "none"
    /\ call' = [call EXCEPT ![t] = NoCall]
    /\ UNCHANGED <<context, ambient, ctor, column>>

\* _write_data(items, buf), "with localcontext() as ctx": the current context
\* is saved and a copy of it becomes current.
WriteDataEnter(t, batches) ==
    /\ call[t] = NoCall
    /\ column[t] # NoColumn
    /\ \E items \in batches :
          call' = [call EXCEPT ![t] =
                     [NoCall EXCEPT !.op = "write", !.pc = "entered", !.input = items,
                                    !.saved = context[t]]]
    /\ UNCHANGED <<context, ambient, ctor, column>>

\* _read_data(n_items, buf, nulls_map), "with localcontext() as ctx".
ReadDataEnter(t, reads) ==
    /\ call[t] = NoCall
    /\ column[t] # NoColumn
    /\ \E rd \in reads :
          call' = [call EXCEPT ![t] =
                     [NoCall EXCEPT !.op = "read", !.pc = "entered", !.input = rd.source,
                                    !.n_items = rd.n_items, !.nulls_in = rd.nulls_map,
                                    !.saved = context[t]]]
    /\ UNCHANGED <<context, ambient, ctor, column>>

\* ctx.prec = self.max_precision
SetPrec(t) ==
    /\ call[t].pc = "entered"
    /\ context' = [context EXCEPT ![CtxOwner(t)] = max_precision(column[t].cls)]
    /\ call' = [call EXCEPT ![t].pc = "working"]
    /\ UNCHANGED <<ambient, ctor, column>>

\* super()._write_data(items, buf) inside the with block.
WriteDataBody(t) ==
    /\ call[t].pc = "working"
    /\ call[t].op = "write"
    /\ LET r == BaseWriteData(column[t], call[t].input, call[t].buf, getprec(t))
       IN  call' = [call EXCEPT ![t].pc = "exiting", ![t].working = getprec(t),
                                ![t].st = r.st, ![t].err = r.err, ![t].buf = r.buf]
    /\ UNCHANGED <<context, ambient, ctor, column>>

\* super()._read_data(n_items, buf, nulls_map=nulls_map) inside the with block.
ReadDataBody(t) ==
    /\ call[t].pc = "working"
    /\ call[t].op = "read"
    /\ LET r == BaseReadData(column[t], call[t].n_items, call[t].input,
                             call[t].nulls_in, getprec(t))
       IN  call' = [call EXCEPT ![t].pc = "exiting", ![t].working = getprec(t),
                                ![t].st = [NoPass EXCEPT !.items = r.items],
                                ![t].err = r.err, ![t].result = r.result]
    /\ UNCHANGED <<context, ambient, ctor, column>>

\* A with block that restores the saved context only when its body returns.
RestoredPrecOnReturn(frame) ==
    IF frame.err = "none" THEN frame.saved ELSE frame.working

\* The precision in force once the with block is left: the saved context is
\* made current again, whether the body returned or raised.
RestoredPrec(frame) == frame.saved

\* The with block is left: the result is returned or the exception propagates.
ExitContext(t) ==
    /\ call[t].pc = "exiting"
    /\ context' = [context EXCEPT ![CtxOwner(t)] = RestoredPrec(call[t])]
    /\ call' = [call EXCEPT ![t].pc = "idle"]
    /\ UNCHANGED <<ambient, ctor, column>>

\* One thread: every declaration of CallDecls, every batch and every read.
Next ==
    \E t \in {1} :
        \/ setcontext(t, AmbientPrecs)
        \/ create_decimal_column(t, CallDecls, Options)
        \/ release(t)
        \/ discard(t)
        \/ WriteDataEnter(t, Batches(column[t]))
        \/ ReadDataEnter(t, Reads(column[t]))
        \/ SetPrec(t)
        \/ WriteDataBody(t)
        \/ ReadDataBody(t)
        \/ ExitContext(t)

Spec == Init /\ [][Next]_vars

\* Construction alone, over every declaration of CtorDecls.
NextCtor ==
    \E t \in {1} :
        \/ create_decimal_column(t, CtorDecls, Options)
        \/ release(t)

SpecCtor == Init /\ [][NextCtor]_vars

\* Two threads, each with its own column, interleaved step by step.
NextConc ==
    \E t \in Threads :
        \/ setcontext(t, AmbientPrecs)
        \/ create_decimal_column(t, ConcDecls, ConcOptions)
        \/ release(t)
        \/ discard(t)
        \/ WriteDataEnter(t, ConcBatches(column[t]))
        \/ ReadDataEnter(t, ConcReads(column[t]))
        \/ SetPrec(t)
        \/ WriteDataBody(t)
        \/ ReadDataBody(t)
        \/ ExitContext(t)

SpecConc == Init /\ [][NextConc]_vars

(***************************************************************************)
(* Properties.                                                             *)
(***************************************************************************)
WriteDone(t) == call[t].op = "write" /\ call[t].pc \in {"exiting", "idle"}

ReadDone(t) == call[t].op = "read" /\ call[t].pc \in {"exiting", "idle"}

Rows(t) == 1..Len(call[t].input)

\* The validator, or the scale arithmetic, was applied to row i of the batch.
Checked(t, i) == \E k \in 1..Len(call[t].st.trace) : call[t].st.trace[k] = Event("check", i)

Scaled(t, i) == \E k \in 1..Len(call[t].st.trace) : call[t].st.trace[k] = Event("scale", i)

\* v is a Decimal of at most precision digits, at most scale of them fractional.
InBudget(v, col) ==
    /\ v.kind = "dec"
    /\ Len(v.digits) <= col.precision
    /\ 0 - v.exp <= col.scale

\* v * 10^scale, exactly, truncated toward zero.
ExactTrunc(v, scale) == IntOfDecimal(Dec(v.sign, v.digits, v.exp + scale)).val

\* r / 10^scale, exactly.
ExactQuotient(r, scale) == Dec(r.sign, r.digits, 0 - scale)

\* C1. Round trip: a Decimal within the digit budget of the declaration, scaled
\* by before_write_items under the precision _write_data sets, then descaled by
\* after_read_items under the precision _read_data sets, comes back equal.
RoundTrip ==
    \A t \in Threads :
        WriteDone(t) =>
            \A i \in Rows(t) :
                (InBudget(call[t].input[i], column[t]) /\ Scaled(t, i)) =>
                    NumEq(after_read_items(column[t], <<call[t].st.items[i]>>, NoNulls,
                                           max_precision(column[t].cls))[1],
                          call[t].input[i])

\* A 76-digit value at precision 76 has been written without error.
RoundTripWitness ==
    /\ call[1].op = "write" /\ call[1].pc = "idle" /\ call[1].err = "none"
    /\ column[1].precision = 76
    /\ \E i \in Rows(1) : /\ call[1].input[i].kind = "dec"
                          /\ Len(call[1].input[i].digits) = 76
                          /\ Scaled(1, i)

\* C2. Decode exactness over the whole raw range: every raw integer of the
\* width read at a scale >= 1 decodes to exactly raw / 10^scale.
DecodeExactWholeRange ==
    \A t \in Threads :
        (ReadDone(t) /\ call[t].err = "none" /\ column[t].scale >= 1) =>
            \A i \in 1..Len(call[t].result) :
                call[t].result[i] # None =>
                    NumEq(call[t].result[i],
                          ExactQuotient(call[t].st.items[i], column[t].scale))

\* A declaration create_decimal_column is required to reject.
InvalidDecl(decl) ==
    \/ decl.form \in {"badp", "bads", "one", "three"}
    \/ decl.p < 1
    \/ decl.p > 76
    \/ decl.s > decl.p
    \/ decl.s < 0

\* C3. Invalid declarations are rejected at construction: InvalidSpec is
\* raised and no column is returned when the precision is outside 1..76, the
\* scale is negative or above the precision, or a field is no integer.
InvalidDeclRejected ==
    \A t \in Threads :
        (ctor[t] # NoCtor /\ InvalidDecl(ctor[t].decl)) =>
            (ctor[t].err = "InvalidSpec" /\ column[t] = NoColumn)

\* C4. Width selection: for a declared precision in 1..76 the class
\* create_decimal_column instantiates is the one of the smallest width whose
\* max_precision is >= the precision (32 bits/9, 64/18, 128/38, 256/76); a
\* column that is built is of that class and carries the declared precision.
WidthSelection ==
    \A t \in Threads :
        (ctor[t].decl.form \in {"plain", "spaced"} /\ ctor[t].decl.p \in 1..76) =>
            LET cls == ctor[t].cls
            IN  /\ cls \in Classes
                /\ <<Bits(cls), max_precision(cls)>> \in
                       {<<32, 9>>, <<64, 18>>, <<128, 38>>, <<256, 76>>}
                /\ max_precision(cls) >= ctor[t].decl.p
                /\ \A c \in Classes :
                       max_precision(c) >= ctor[t].decl.p => Bits(cls) <= Bits(c)
                /\ ~ctor[t].options.types_check => ctor[t].err = "none"
                /\ ctor[t].err = "none" =>
                       (column[t].cls = cls /\ column[t].precision = ctor[t].decl.p)

\* A column of each width has been built at the lowest precision of its row.
WidthSelectionWitness ==
    /\ ctor[1].decl.p = 39
    /\ ctor[1].decl.form = "spaced"
    /\ column[1].cls = "Decimal256Column"

\* C5. Validator boundary: with types_check a column of every width class is
\* constructed; its validator accepts +-(2^(width-1)-1) and rejects 2^(width-1)
\* with a TypeMismatch carrying the value; without types_check nothing is
\* range-checked.
ValidatorBoundary ==
    \A t \in Threads :
        /\ (ctor[t].decl.form = "plain" /\ ~InvalidDecl(ctor[t].decl)
              /\ ctor[t].options.types_check) =>
                 (ctor[t].err = "none" /\ column[t].check_item.set)
        /\ (WriteDone(t) /\ column[t].check_item.set) =>
             LET max == PyInt(0, SignedMax(Bits(column[t].cls)))
                 over(x) == IsNumber(x) /\ (NumCmp(x, max) = 1 \/ NumCmp(x, Neg(max)) = -1)
             IN  /\ (\E i \in Rows(t) : over(call[t].input[i])) =>
                        call[t].st.err \in {"TypeMismatch", "TypeError"}
                 /\ call[t].st.err = "TypeMismatch" => over(call[t].st.errval)
        /\ (WriteDone(t) /\ ~column[t].check_item.set) =>
             (call[t].st.err # "TypeMismatch" /\ \A i \in Rows(t) : ~Checked(t, i))

\* Every row of the batch went through the validation loop of prepare_items.
AllPrepared(t) ==
    call[t].st.err = "none" \/ \E i \in Rows(t) : Scaled(t, i)

\* C6. Null transparency of a nullable column: a row the bitmap marks decodes
\* to None whatever its raw integer, any other row to its descaled value at
\* the same index; a written None is marked in the bitmap prepare_items
\* builds, replaced by the null value, and neither validated nor scaled.
NullTransparency ==
    \A t \in Threads :
        column[t].nullable =>
            /\ (ReadDone(t) /\ call[t].err = "none" /\ call[t].nulls_in.given) =>
                 /\ Len(call[t].result) = Len(call[t].nulls_in.map)
                 /\ \A i \in 1..Len(call[t].nulls_in.map) :
                        IF call[t].nulls_in.map[i]
                        THEN call[t].result[i] = None
                        ELSE call[t].result[i] =
                                 Descale(call[t].input[i], column[t].scale,
                                         max_precision(column[t].cls))
            /\ WriteDone(t) =>
                 \A i \in Rows(t) :
                     call[t].input[i] = None =>
                         /\ ~Checked(t, i)
                         /\ ~Scaled(t, i)
                         /\ AllPrepared(t) =>
                                /\ call[t].st.nulls_map.given
                                /\ call[t].st.nulls_map.map[i]
                                /\ call[t].st.items[i] = null_value

\* A null row holding the largest magnitude of the width was read beside a
\* row that is not null.
NullTransparencyWitness ==
    /\ column[1].nullable
    /\ column[1].scale >= 1
    /\ call[1].op = "read" /\ call[1].pc = "idle" /\ call[1].err = "none"
    /\ call[1].nulls_in.map = <<TRUE, FALSE>>
    /\ call[1].input[1].digits = SignedMax(Bits(column[1].cls))
    /\ call[1].result[1] = None
    /\ call[1].result[2] # None

\* C7. Precision-context restoration: whenever no call is in progress the
\* precision of the thread is the one the application set, after calls that
\* returned and after calls that raised alike; inside a call the precision
\* saved is that ambient one and the working precision is max_precision of
\* the column's class.
ContextRestored ==
    \A t \in {1} :
        /\ call[t].pc = "idle" => context[t] = ambient[t]
        /\ call[t].pc # "idle" => call[t].saved = ambient[t]
        /\ call[t].pc = "working" => getprec(t) = max_precision(column[t].cls)
        /\ (call[t].op # "none" /\ call[t].pc \in {"exiting", "idle"}) =>
               call[t].working = max_precision(column[t].cls)

\* A call that raised has returned to an application whose precision differs
\* from the working one.
ContextRestoredWitness ==
    /\ call[1].pc = "idle"
    /\ call[1].err \in {"TypeMismatch", "ValueError", "CodecError"}
    /\ ambient[1] # max_precision(column[1].cls)
    /\ call[1].working = max_precision(column[1].cls)

\* C8. All-or-nothing write: a call that raises leaves nothing in the sink, a
\* call that returns has handed every row's integer to the codec; every row
\* is validated before any row is scaled, so a TypeMismatch leaves no row
\* scaled.
AllOrNothing ==
    \A t \in Threads :
        WriteDone(t) =>
            LET tr == call[t].st.trace
            IN  /\ call[t].err # "none" => call[t].buf = <<>>
                /\ call[t].err = "none" =>
                       /\ Len(call[t].buf) = Len(call[t].input)
                       /\ \A i \in Rows(t) : call[t].buf[i].value = call[t].st.items[i]
                /\ \A a, b \in 1..Len(tr) :
                       (tr[a].ev = "scale" /\ tr[b].ev = "check") => b < a
                /\ call[t].st.err \in {"TypeMismatch", "TypeError"} =>
                       \A i \in Rows(t) : ~Scaled(t, i)
                /\ (column[t].check_item.set /\ \E i \in Rows(t) : Scaled(t, i)) =>
                       \A i \in Rows(t) : call[t].input[i] # None => Checked(t, i)

\* The validator raised on the second row of a batch whose first row it had
\* accepted.
AllOrNothingWitness ==
    /\ call[1].op = "write" /\ call[1].pc = "idle"
    /\ call[1].err = "TypeMismatch"
    /\ Len(call[1].input) = 2
    /\ call[1].st.errval = call[1].input[2]
    /\ Checked(1, 1)
    /\ call[1].buf = <<>>

\* C9. Truncation toward zero on write: the integer stored for a value v is
\* v * 10^scale truncated toward zero, also when v * 10^scale has more digits
\* than max_precision.
TruncationTowardZero ==
    \A t \in Threads :
        WriteDone(t) =>
            \A i \in Rows(t) :
                (IsNumber(call[t].input[i]) /\ Scaled(t, i)) =>
                    call[t].st.items[i] = ExactTrunc(call[t].input[i], column[t].scale)

\* C10. Concurrent calls keep their own precision: under every interleaving of
\* two threads' steps, each call works under max_precision of its own column
\* and each thread is back at its own ambient precision once its call is over.
NoCrossThreadPrecision ==
    \A t \in Threads :
        /\ call[t].pc = "working" => getprec(t) = max_precision(column[t].cls)
        /\ (call[t].op # "none" /\ call[t].pc \in {"exiting", "idle"}) =>
               call[t].working = max_precision(column[t].cls)
        /\ call[t].pc = "idle" => context[t] = ambient[t]

\* One thread has done its arithmetic on a 32-bit column while the other is
\* inside a call on a 256-bit column.
NoCrossThreadPrecisionWitness ==
    /\ call[1].pc = "exiting"
    /\ call[2].pc = "working"
    /\ column[1].cls = "Decimal32Column"
    /\ column[2].cls = "Decimal256Column"
    /\ ambient[1] # ambient[2]

====
